---- MODULE Spec2Model ----
(***************************************************************************)
(* The Anniversary sketch: setup() initialises one Light object, loop()    *)
(* calls Light::Blink() forever.  The repository holds three definitions   *)
(* of the Light class:                                                     *)
(*   "lib"   src/Anniversary/lib/Light/Light.cpp                           *)
(*   "mainA" src/Anniversary/src/main.cpp lines 22-61 (same statements as  *)
(*           "lib", CheckState declared int)                               *)
(*   "mainB" src/Anniversary/src/main.cpp lines 62-128                     *)
(* The variable `variant` says which one the build links; it never         *)
(* changes.  Blink is split at its blocking delays, because the switch     *)
(* line may change level while the processor waits.                        *)
(***************************************************************************)
EXTENDS Integers, Sequences, FiniteSets

VARIABLES
    variant,      \* which definition of Light is linked
    A5,           \* the board's pin number for A5 (pins_arduino.h)
    pc,           \* position of the single thread of control
    serialBaud,   \* Serial.begin argument, 0 before setup
    pinLight,     \* Light::pinLight
    pinSwitch,    \* Light::pinSwitch
    switchState,  \* Light::switchState
    pinModes,     \* pinMode per pin
    pinLevel,     \* logical level per pin
    before,       \* local variable of Blink
    after,        \* value of the second CheckState() call in Blink
    idx,          \* next statement of the blink pattern
    trace,        \* history: delays and writes of the current invocation
    lastPattern,  \* history: per first sample, trace of the last blink
    lvl1,         \* history: level of the switch line at the first sample
    lvl2,         \* history: level of the switch line at the second sample
    entryState,   \* history: switchState when Blink was entered
    nSamples,     \* history: CheckState calls of the current invocation
    initCount,    \* history: calls of Light::Init
    steady,       \* history: the switch line has not changed since setup
    everWritten,  \* history: digitalWrite has been called
    blinks        \* history: completed Blink invocations (capped)

vars == <<variant, A5, pc, serialBaud, pinLight, pinSwitch, switchState,
          pinModes, pinLevel, before, after, idx, trace, lastPattern,
          lvl1, lvl2, entryState, nSamples, initCount, steady, everWritten,
          blinks>>

\* ---------------------------------------------------------------- bounds
MaxBlinks == 2
MaxSamples == 3

\* ------------------------------------------------------------- constants
LOW == 0
HIGH == 1
OFF == 0
ON == 1
HeartPin == 4
Baud == 9600

Variants == {"lib", "mainA", "mainB"}
\* A5 is defined by the board: 19 on ATmega328 boards, 23 on ATmega32U4.
A5Values == {19, 23}
Pins == {0, 1, HeartPin} \cup A5Values
Modes == {"NONE", "INPUT", "OUTPUT"}

Min(a, b) == IF a < b THEN a ELSE b

\* ------------------------------------------------------ platform services
digitalRead(levels, pin) == levels[pin]
digitalWrite(levels, pin, v) == [levels EXCEPT ![pin] = v]
pinMode(modes, pin, m) == [modes EXCEPT ![pin] = m]

\* ------------------------------------------------------------ Light class
\* The value CheckState stores in switchState and returns.
CheckState(v, pSwitch, levels) ==
    IF v = "mainB"
    THEN IF digitalRead(levels, pSwitch) # 0 THEN ON ELSE OFF
    ELSE IF pSwitch = HIGH THEN ON ELSE OFF

\* delay between the two samples of Blink
SampleDelay(v) == IF v = "mainB" THEN 500 ELSE 200

Pattern_EndHigh(v) ==
    IF v = "mainB"
    THEN << <<"write", HIGH>>, <<"delay", 200>>, <<"write", LOW>>,
            <<"delay", 200>>, <<"write", HIGH>>, <<"delay", 400>>,
            <<"write", LOW>>, <<"delay", 400>>,
            <<"write", HIGH>>, <<"delay", 200>>, <<"write", LOW>>,
            <<"delay", 200>>, <<"write", HIGH>>, <<"delay", 400>> >>
    ELSE << <<"write", HIGH>>, <<"delay", 200>>, <<"write", LOW>>,
            <<"delay", 500>>, <<"write", HIGH>>, <<"delay", 500>> >>

\* The statements of the if-branch of Blink, in order.
Pattern(v) ==
    IF v = "mainB"
    THEN << <<"write", HIGH>>, <<"delay", 200>>, <<"write", LOW>>,
            <<"delay", 200>>, <<"write", HIGH>>, <<"delay", 400>>,
            <<"write", LOW>>, <<"delay", 400>>,
            <<"write", HIGH>>, <<"delay", 200>>, <<"write", LOW>>,
            <<"delay", 200>>, <<"write", HIGH>>, <<"delay", 400>>,
            <<"write", LOW>> >>
    ELSE << <<"write", HIGH>>, <<"delay", 200>>, <<"write", LOW>>,
            <<"delay", 500>>, <<"write", HIGH>>, <<"delay", 500>>,
            <<"write", LOW>> >>

TypeOK ==
    /\ variant \in Variants
    /\ A5 \in A5Values
    /\ pc \in {"setup", "loop", "before", "delay", "after", "pattern", "return"}
    /\ serialBaud \in {0, Baud}
    /\ pinLight \in Pins
    /\ pinSwitch \in Pins
    /\ switchState \in {OFF, ON}
    /\ pinModes \in [Pins -> Modes]
    /\ pinLevel \in [Pins -> {LOW, HIGH}]
    /\ before \in {OFF, ON}
    /\ after \in {OFF, ON}
    /\ idx \in 0..15
    /\ nSamples \in 0..MaxSamples
    /\ initCount \in 0..1
    /\ blinks \in 0..MaxBlinks

\* The state at reset: the global Light object is zero-initialised, no pin
\* is configured, every output latch is LOW, the switch is at either level.
Init ==
    /\ variant \in Variants
    /\ A5 \in A5Values
    /\ pc = "setup"
    /\ serialBaud = 0
    /\ pinLight = 0
    /\ pinSwitch = 0
    /\ switchState = OFF
    /\ pinModes = [p \in Pins |-> "NONE"]
    /\ \E l \in {LOW, HIGH} :
          pinLevel = [p \in Pins |-> IF p = A5 THEN l ELSE LOW]
    /\ before = OFF
    /\ after = OFF
    /\ idx = 0
    /\ trace = <<>>
    /\ lastPattern = [d \in {OFF, ON} |-> <<>>]
    /\ lvl1 = LOW
    /\ lvl2 = LOW
    /\ entryState = OFF
    /\ nSamples = 0
    /\ initCount = 0
    /\ steady = TRUE
    /\ everWritten = FALSE
    /\ blinks = 0

setup_NoInit ==
    /\ pc = "setup"
    /\ serialBaud' = Baud
    /\ pc' = "loop"
    /\ steady' = TRUE
    /\ UNCHANGED <<variant, A5, pinLight, pinSwitch, pinModes, initCount,
                   switchState, pinLevel, before, after, idx, trace,
                   lastPattern, lvl1, lvl2, entryState, nSamples,
                   everWritten, blinks>>

\* setup(): Serial.begin(9600); light.Init(HeartPin, SwitchPin)
setup ==
    /\ pc = "setup"
    /\ serialBaud' = Baud
    /\ pinLight' = HeartPin
    /\ pinSwitch' = A5
    /\ pinModes' = pinMode(pinMode(pinModes, pinLight', "OUTPUT"),
                            pinSwitch', "INPUT")
    /\ initCount' = initCount + 1
    /\ pc' = "loop"
    /\ steady' = TRUE
    /\ UNCHANGED <<variant, A5, switchState, pinLevel, before, after, idx,
                   trace, lastPattern, lvl1, lvl2, entryState, nSamples,
                   everWritten, blinks>>

\* loop(): calls light.Blink()
loop ==
    /\ pc = "loop"
    /\ pc' = "before"
    /\ trace' = <<>>
    /\ nSamples' = 0
    /\ idx' = 0
    /\ entryState' = switchState
    /\ UNCHANGED <<variant, A5, serialBaud, pinLight, pinSwitch, switchState,
                   pinModes, pinLevel, before, after, lastPattern, lvl1, lvl2,
                   initCount, steady, everWritten, blinks>>

BlinkBefore_Assign ==
    /\ pc = "before"
    /\ pinSwitch' = HIGH
    /\ switchState' = ON
    /\ before' = ON
    /\ lvl1' = pinLevel[A5]
    /\ nSamples' = Min(nSamples + 1, MaxSamples)
    /\ pc' = "delay"
    /\ UNCHANGED <<variant, A5, serialBaud, pinLight, pinModes,
                   pinLevel, after, idx, trace, lastPattern, lvl2, entryState,
                   initCount, steady, everWritten, blinks>>

BlinkBefore_Stored ==
    /\ pc = "before"
    /\ before' = switchState
    /\ lvl1' = pinLevel[A5]
    /\ nSamples' = Min(nSamples + 1, MaxSamples)
    /\ pc' = "delay"
    /\ UNCHANGED <<variant, A5, serialBaud, pinLight, pinSwitch, pinModes,
                   switchState, pinLevel, after, idx, trace, lastPattern,
                   lvl2, entryState, initCount, steady, everWritten, blinks>>

\* Blink: State before = CheckState();
BlinkBefore ==
    /\ pc = "before"
    /\ switchState' = CheckState(variant, pinSwitch, pinLevel)
    /\ before' = switchState'
    /\ lvl1' = pinLevel[A5]
    /\ nSamples' = Min(nSamples + 1, MaxSamples)
    /\ pc' = "delay"
    /\ UNCHANGED <<variant, A5, serialBaud, pinLight, pinSwitch, pinModes,
                   pinLevel, after, idx, trace, lastPattern, lvl2, entryState,
                   initCount, steady, everWritten, blinks>>

\* Blink: delay(...) between the two samples
BlinkDelay ==
    /\ pc = "delay"
    /\ trace' = Append(trace, <<"delay", SampleDelay(variant)>>)
    /\ pc' = "after"
    /\ UNCHANGED <<variant, A5, serialBaud, pinLight, pinSwitch, switchState,
                   pinModes, pinLevel, before, after, idx, lastPattern, lvl1,
                   lvl2, entryState, nSamples, initCount, steady, everWritten,
                   blinks>>

BlinkAfter_Inverted ==
    /\ pc = "after"
    /\ switchState' = CheckState(variant, pinSwitch, pinLevel)
    /\ after' = switchState'
    /\ lvl2' = pinLevel[A5]
    /\ nSamples' = Min(nSamples + 1, MaxSamples)
    /\ IF after' = before
       THEN pc' = "pattern" /\ idx' = 1
       ELSE pc' = "return" /\ idx' = 0
    /\ UNCHANGED <<variant, A5, serialBaud, pinLight, pinSwitch, pinModes,
                   pinLevel, before, trace, lastPattern, lvl1, entryState,
                   initCount, steady, everWritten, blinks>>

BlinkAfter_Latch ==
    /\ pc = "after"
    /\ after' = CheckState(variant, pinSwitch, pinLevel)
    /\ switchState' = IF switchState = OFF THEN after' ELSE switchState
    /\ lvl2' = pinLevel[A5]
    /\ nSamples' = Min(nSamples + 1, MaxSamples)
    /\ IF after' # before
       THEN pc' = "pattern" /\ idx' = 1
       ELSE pc' = "return" /\ idx' = 0
    /\ UNCHANGED <<variant, A5, serialBaud, pinLight, pinSwitch, pinModes,
                   pinLevel, before, trace, lastPattern, lvl1, entryState,
                   initCount, steady, everWritten, blinks>>

\* Blink: if(CheckState() != before)
BlinkAfter ==
    /\ pc = "after"
    /\ switchState' = CheckState(variant, pinSwitch, pinLevel)
    /\ after' = switchState'
    /\ lvl2' = pinLevel[A5]
    /\ nSamples' = Min(nSamples + 1, MaxSamples)
    /\ IF after' # before
       THEN pc' = "pattern" /\ idx' = 1
       ELSE pc' = "return" /\ idx' = 0
    /\ UNCHANGED <<variant, A5, serialBaud, pinLight, pinSwitch, pinModes,
                   pinLevel, before, trace, lastPattern, lvl1, entryState,
                   initCount, steady, everWritten, blinks>>

BlinkPattern_ByDirection ==
    /\ pc = "pattern"
    /\ LET op == Pattern(variant)[idx]
           skip == before = ON /\ op[1] = "delay" /\ idx = 2
       IN /\ trace' = IF skip THEN trace ELSE Append(trace, op)
          /\ IF op[1] = "write"
             THEN /\ pinLevel' = digitalWrite(pinLevel, pinLight, op[2])
                  /\ everWritten' = TRUE
             ELSE UNCHANGED <<pinLevel, everWritten>>
    /\ IF idx = Len(Pattern(variant))
       THEN pc' = "return" /\ idx' = 0
       ELSE pc' = "pattern" /\ idx' = idx + 1
    /\ UNCHANGED <<variant, A5, serialBaud, pinLight, pinSwitch, switchState,
                   pinModes, before, after, lastPattern, lvl1, lvl2,
                   entryState, nSamples, initCount, steady, blinks>>

BlinkPattern_Resample ==
    /\ pc = "pattern"
    /\ LET op == Pattern(variant)[idx]
       IN /\ trace' = Append(trace, op)
          /\ IF op[1] = "write"
             THEN /\ pinLevel' = digitalWrite(pinLevel, pinLight, op[2])
                  /\ everWritten' = TRUE
             ELSE UNCHANGED <<pinLevel, everWritten>>
    /\ IF idx = Len(Pattern(variant))
       THEN /\ pc' = "return" /\ idx' = 0
            /\ switchState' = CheckState(variant, pinSwitch, pinLevel)
            /\ nSamples' = Min(nSamples + 1, MaxSamples)
       ELSE /\ pc' = "pattern" /\ idx' = idx + 1
            /\ UNCHANGED <<switchState, nSamples>>
    /\ UNCHANGED <<variant, A5, serialBaud, pinLight, pinSwitch,
                   pinModes, before, after, lastPattern, lvl1, lvl2,
                   entryState, initCount, steady, blinks>>

\* Blink: one statement of the if-branch, a digitalWrite or a delay
BlinkPattern ==
    /\ pc = "pattern"
    /\ LET op == Pattern(variant)[idx]
       IN /\ trace' = Append(trace, op)
          /\ IF op[1] = "write"
             THEN /\ pinLevel' = digitalWrite(pinLevel, pinLight, op[2])
                  /\ everWritten' = TRUE
             ELSE UNCHANGED <<pinLevel, everWritten>>
    /\ IF idx = Len(Pattern(variant))
       THEN pc' = "return" /\ idx' = 0
       ELSE pc' = "pattern" /\ idx' = idx + 1
    /\ UNCHANGED <<variant, A5, serialBaud, pinLight, pinSwitch, switchState,
                   pinModes, before, after, lastPattern, lvl1, lvl2,
                   entryState, nSamples, initCount, steady, blinks>>

\* Blink: return; loop() returns and is called again
BlinkReturn ==
    /\ pc = "return"
    /\ pc' = "loop"
    /\ blinks' = Min(blinks + 1, MaxBlinks)
    /\ lastPattern' = IF after # before
                      THEN [lastPattern EXCEPT ![before] = trace]
                      ELSE lastPattern
    /\ UNCHANGED <<variant, A5, serialBaud, pinLight, pinSwitch, switchState,
                   pinModes, pinLevel, before, after, idx, trace, lvl1, lvl2,
                   entryState, nSamples, initCount, steady, everWritten>>

\* The environment: the switch wired to A5 changes its level.
SwitchChange ==
    /\ pinLevel' = [pinLevel EXCEPT ![A5] = IF @ = LOW THEN HIGH ELSE LOW]
    /\ steady' = FALSE
    /\ UNCHANGED <<variant, A5, pc, serialBaud, pinLight, pinSwitch,
                   switchState, pinModes, before, after, idx, trace,
                   lastPattern, lvl1, lvl2, entryState, nSamples, initCount,
                   everWritten, blinks>>

Program ==
    \/ setup
    \/ loop
    \/ BlinkBefore
    \/ BlinkDelay
    \/ BlinkAfter
    \/ BlinkPattern
    \/ BlinkReturn

Next == Program \/ SwitchChange

Spec == Init /\ [][Next]_vars

\* One processor runs the sketch: the next statement is always executed and
\* every delay(n) returns after n milliseconds.
FairSpec == Spec /\ WF_vars(Program)

\* ------------------------------------------------------------ properties
IsWrite(e) == e[1] = "write"
Writes(t) == SelectSeq(t, IsWrite)
PatternRan == Writes(trace) # <<>>
Single ==
    << <<"write", HIGH>>, <<"delay", 200>>, <<"write", LOW>>,
       <<"delay", 200>>, <<"write", HIGH>>, <<"delay", 400>>,
       <<"write", LOW>> >>

\* C1: each CheckState call returns ON exactly when the switch line is
\* high at the moment of the call, and OFF otherwise.
C1_SampleMatchesLevel ==
    /\ pc = "delay" => (before = ON <=> lvl1 = HIGH)
    /\ pc \in {"pattern", "return"} => (after = ON <=> lvl2 = HIGH)

\* C2: an invocation whose two samples differ performs the sample wait
\* followed by exactly the statements of the blink pattern, and that
\* sequence equals the one of every earlier blinking invocation, whichever
\* direction the change had.
C2_FixedPattern ==
    pc = "return" /\ after # before =>
        /\ trace = << <<"delay", SampleDelay(variant)>> >> \o Pattern(variant)
        /\ \A d \in {OFF, ON} :
              lastPattern[d] # <<>> => trace = lastPattern[d]

C2_Witness ==
    /\ pc = "return"
    /\ before = ON
    /\ after = OFF
    /\ lastPattern[OFF] # <<>>
    /\ Len(Writes(trace)) = 8

\* C3: an invocation whose two samples are equal writes nothing to the
\* output pin, and as long as the switch line has not changed since setup
\* the output pin has never been written and is LOW.
C3_NoWriteWhenEqual ==
    /\ pc = "return" /\ after = before => ~PatternRan
    /\ steady => ~everWritten /\ pinLevel[HeartPin] = LOW

C3_Witness ==
    /\ pc = "return"
    /\ variant = "mainB"
    /\ steady
    /\ pinLevel[A5] = HIGH
    /\ before = ON
    /\ after = ON
    /\ blinks = MaxBlinks

\* C4: when the switch line is LOW at the first sample and HIGH at the
\* second, the output pin sees HIGH, wait 200, LOW, wait 200, HIGH,
\* wait 400, LOW, possibly once more after a wait of 400, and nothing else.
C4_LowHighSequence ==
    pc = "return" /\ lvl1 = LOW /\ lvl2 = HIGH =>
        Tail(trace) \in {Single, Single \o << <<"delay", 400>> >> \o Single}

\* C5: Init runs exactly once, in setup, before any sample; from then on
\* the output pin is in output mode and the input pin in input mode.
C5_InitOnceBeforeSampling ==
    /\ initCount <= 1
    /\ pc = "setup" => initCount = 0 /\ nSamples = 0 /\ blinks = 0
    /\ pc # "setup" =>
          /\ initCount = 1
          /\ pinModes[HeartPin] = "OUTPUT"
          /\ pinModes[A5] = "INPUT"
          /\ pinModes[pinLight] = "OUTPUT"
          /\ pinModes[pinSwitch] = "INPUT"

C5_Witness ==
    /\ pc = "return"
    /\ nSamples = 2
    /\ blinks = 1
    /\ initCount = 1

\* C6: every CheckState call leaves its return value in switchState,
\* whatever was stored before; after Blink has returned switchState is the
\* second sample of that invocation.
C6_StoredIsLastSample ==
    /\ pc = "delay" => switchState = before
    /\ pc \in {"pattern", "return"} => switchState = after
    /\ pc = "loop" /\ blinks > 0 => switchState = after

C6_Witness ==
    /\ pc = "loop"
    /\ blinks > 0
    /\ entryState = ON
    /\ before = OFF
    /\ after = ON
    /\ switchState = ON

\* C7: once Init has run, pinLight and pinSwitch keep the values that were
\* passed to Init.
C7_PinsFixed ==
    pc # "setup" => pinLight = HeartPin /\ pinSwitch = A5

C7_Witness ==
    /\ pc = "loop"
    /\ blinks = MaxBlinks
    /\ everWritten
    /\ pinLight = HeartPin
    /\ pinSwitch = A5

\* C8: every Blink invocation returns, having taken exactly two samples
\* and at most the sample wait plus the pattern's statements; no sample is
\* taken while the pattern runs; Blink is entered again and again.
C8_RunsToCompletion ==
    /\ [](pc = "return" =>
            nSamples = 2 /\ Len(trace) <= 1 + Len(Pattern(variant)))
    /\ [][pc = "pattern" =>
            nSamples' = nSamples /\ switchState' = switchState]_vars
    /\ (pc = "before") ~> (pc = "return")
    /\ []<>(pc = "before")

C8_Witness ==
    /\ pc = "return"
    /\ PatternRan
    /\ nSamples = 2
    /\ blinks = MaxBlinks

\* C9: the pattern runs exactly when the two samples of the same
\* invocation differ, and only if the switch line really had different
\* levels at the two sample times; the state stored by an earlier
\* invocation plays no part.
C9_OnlyOwnSamples ==
    pc = "return" =>
        /\ PatternRan <=> before # after
        /\ PatternRan => lvl1 # lvl2

C9_Witness ==
    /\ pc = "return"
    /\ variant = "mainB"
    /\ blinks > 0
    /\ entryState # before
    /\ lvl1 = lvl2
    /\ ~PatternRan

\* C10: the output pin is LOW whenever the input is sampled and whenever
\* Blink returns, and the writes of an invocation alternate HIGH, LOW,
\* starting with HIGH.
C10_OutputLowOutsidePattern ==
    /\ pc \in {"loop", "before", "delay", "after", "return"} =>
          pinLevel[HeartPin] = LOW
    /\ \A i \in 1..Len(Writes(trace)) :
          Writes(trace)[i][2] = IF i % 2 = 1 THEN HIGH ELSE LOW

C10_Witness ==
    /\ pc = "return"
    /\ PatternRan
    /\ pinLevel[HeartPin] = LOW
    /\ Len(Writes(trace)) \in {4, 8}

====
